---- MODULE Spec2Model ----
(***************************************************************************)
(* Model of ultralabel.llm.openai_.OpenAILLM: construction (credential     *)
(* resolution, model availability check), the tenacity retry policy that   *)
(* wraps openai.ChatCompletion.create, and _generate (prompt formatting,   *)
(* completion request, output parsing).                                    *)
(***************************************************************************)
EXTENDS Integers, Sequences, FiniteSets, TLC

\* ------------------------------------------------------------------ bounds
\* number of OpenAILLM(...) constructions in one run of the process
MaxAdapters == 2
\* largest num_generations passed to _generate
MaxGenerations == 2

\* ------------------------------------------------------- program constants
_OPENAI_API_STOP_AFTER_ATTEMPT == 6
_OPENAI_API_WAIT_RANDOM_EXPONENTIAL_MULTIPLIER == 1
_OPENAI_API_WAIT_RANDOM_EXPONENTIAL_MAX == 10
_OPENAI_API_RETRY_ON_EXCEPTIONS ==
    {"APIError", "Timeout", "RateLimitError", "ServiceUnavailableError"}
DefaultMaxNewTokens == 128

\* ------------------------------------------------------------------ values
None == "None"
\* error kinds of openai.error that are not retried
NonTransientErrors == {"InvalidRequestError"}
EndpointErrors == _OPENAI_API_RETRY_ON_EXCEPTIONS \cup NonTransientErrors

\* openai_api_key arguments: absent, empty, a key
KeyArgs == {None, "", "sk-arg"}
\* os.environ.get("OPENAI_API_KEY"): unset or a key
EnvKeys == {None, "sk-env"}

ModelNames == {"gpt-3.5-turbo", "gpt-4"}
\* payloads of openai.Model.list(): the "data" entries by their "id" (None for
\* an entry without one), or no "data" key at all
NoData == <<"<no data>">>
ModelListPayloads == { <<"gpt-4", None, "gpt-4-32k">>, NoData }

FormattingFns == {None, "fn_turns", "fn_text"}

Range(s) == { s[i] : i \in 1..Len(s) }

\* -------------------------------------------------------- prompt values
\* every Python value a prompt can be is a record tagged with its type
Turn(role, content) == [role |-> role, content |-> content]
PyList(items) == [type |-> "list", items |-> items, text |-> ""]
PyStr(text) == [type |-> "str", items |-> <<>>, text |-> text]
\* ultralabel.tasks.utils.Prompt(system_prompt, formatted_prompt): its two
\* attributes, each as a (name, value) pair
PromptObj(sys, usr) ==
    [type |-> "Prompt",
     items |-> <<Turn("system_prompt", sys), Turn("formatted_prompt", usr)>>,
     text |-> ""]
PyNone == [type |-> "NoneType", items |-> <<>>, text |-> ""]

\* what task.generate_prompt(**input) can return
GeneratedPrompts ==
    { PromptObj("sys", "usr"),
      PyList(<<Turn("user", "usr")>>),
      PyStr("usr") }

isinstance(value, cls) == value.type = cls

\* Prompt.format_as(format="openai"): a system turn and a user turn
format_as(prompt, format) ==
    IF format = "openai"
    THEN PyList(<<Turn("system", prompt.items[1].content),
                  Turn("user", prompt.items[2].content)>>)
    ELSE PyStr("")

\* the text a value renders as
TextOf(value) ==
    CASE value.type = "str" -> value.text
      [] value.type = "list" -> "turns"
      [] OTHER -> "prompt"

\* the user-supplied formatting callables
ApplyFormattingFn(fn, prompt) ==
    IF fn = "fn_turns"
    THEN PyList(<<Turn("user", TextOf(prompt))>>)
    ELSE PyStr(TextOf(prompt))

\* ------------------------------------------------------------------- state
VARIABLES
    env_key,    \* os.environ.get("OPENAI_API_KEY")
    api_key,    \* the module global openai.api_key
    provider,   \* the payload openai.Model.list() returns at this moment
    llms,       \* the OpenAILLM instances, by order of construction
    ctor,       \* how the OpenAILLM(...) call that has just ended, ended
    read,       \* the self.available_models access that has just ended
    call        \* the _generate invocation in progress, if any

vars == <<env_key, api_key, provider, llms, ctor, read, call>>

\* ------------------------------------------------------------ construction
\* line 58: openai_api_key or os.environ.get("OPENAI_API_KEY")
\* (Python's `or` skips every falsy left operand, the empty string included)
ResolveKey(openai_api_key, env) ==
    IF openai_api_key \in {None, ""} THEN env ELSE openai_api_key

\* lines 70-74: the ids of the "data" entries that have one
ListModels(payload) ==
    IF payload = NoData THEN <<>>
    ELSE SelectSeq(payload, LAMBDA id : id # None)

NotCached == [cached |-> FALSE, value |-> <<>>]

\* (variant: a plain property, computed at every access)
available_models_uncached(cache, payload) ==
    [value |-> ListModels(payload),
     cache |-> [cached |-> TRUE, value |-> ListModels(payload)],
     fetched |-> 1]

\* line 68: functools.cached_property. The first access computes and stores,
\* a later one returns what is stored. fetched counts the Model.list() calls.
available_models(cache, payload) ==
    IF cache.cached
    THEN [value |-> cache.value, cache |-> cache, fetched |-> 0]
    ELSE [value |-> ListModels(payload),
          cache |-> [cached |-> TRUE, value |-> ListModels(payload)],
          fetched |-> 1]

\* (variant: the membership test is dropped)
ModelAvailableUnchecked(model, models) == TRUE

\* line 60: model in self.available_models
ModelAvailable(model, models) == model \in Range(models)

\* line 65: openai.api_key is not None
KeyIsSet(key) == key # None

\* the models the first assertion's message shows: line 61 reads
\* self.available_models a second time
MessageModels(cache, payload) == available_models(cache, payload)

\* lines 50-66: OpenAILLM.__init__, given the credential it resolved and
\* whether openai.Model.list() answered: the instance's fields and the error
\* raised, if any
Failed(error, message, cache, list_calls) ==
    [status |-> "failed", error |-> error, message |-> message,
     message_models |-> <<>>, model |-> None, formatting_fn |-> None,
     temperature |-> 0, max_new_tokens |-> 0,
     available_models |-> cache, list_calls |-> list_calls]

NewLLM(model, formatting_fn, temperature, key, payload, listed) ==
    LET first == available_models(NotCached, payload)
        second == MessageModels(first.cache, payload)
    IN  IF ~listed
        THEN \* openai.Model.list() raised: the error leaves __init__
             Failed("APIConnectionError", None, NotCached, 1)
        ELSE IF ~ModelAvailable(model, first.value)
        THEN \* lines 59-61
             [Failed("AssertionError", "model is not available", second.cache,
                     first.fetched + second.fetched)
                 EXCEPT !.message_models = second.value]
        ELSE IF ~KeyIsSet(key)
        THEN \* lines 62-66
             Failed("AssertionError", "api key must be set", first.cache,
                    first.fetched)
        ELSE [status |-> "ok", error |-> None, message |-> None,
              message_models |-> <<>>, model |-> model,
              formatting_fn |-> formatting_fn, temperature |-> temperature,
              max_new_tokens |-> DefaultMaxNewTokens,
              available_models |-> first.cache,
              list_calls |-> first.fetched]

\* an __init__ that raised leaves no object behind
Discarded == Failed(None, None, NotCached, 0)

\* the object the caller holds after the construction
Instance(new) ==
    IF new.status = "ok"
    THEN new ELSE Discarded

\* how the construction ended, with the arguments it was given
Outcome(new, model, openai_api_key, key) ==
    [status |-> new.status, error |-> new.error, message |-> new.message,
     message_models |-> new.message_models,
     listed_models |-> new.available_models,
     list_calls |-> new.list_calls,
     arg_model |-> model, arg_key |-> openai_api_key, resolved_key |-> key]

NoCtor ==
    [status |-> "none", error |-> None, message |-> None,
     message_models |-> <<>>, listed_models |-> NotCached, list_calls |-> 0,
     arg_model |-> None, arg_key |-> None, resolved_key |-> None]

\* temperature arguments, in tenths (line 46: the default is 0.7)
Temperatures == {7}

NoRead == [llm |-> 0, value |-> <<>>, fetched |-> 0]

\* (variant: a key that is already set is not replaced)
SetApiKeyIfUnset(current, resolved) ==
    IF current = None THEN resolved ELSE current

\* line 58: the assignment to the module global openai.api_key, made before
\* either assertion
SetApiKey(current, resolved) == resolved

\* OpenAILLM(task, model, openai_api_key, formatting_fn=...)
Construct(model, openai_api_key, formatting_fn, temperature, listed) ==
    /\ ctor = NoCtor /\ read = NoRead
    /\ call.pc # "done"
    /\ Len(llms) < MaxAdapters
    /\ LET resolved == ResolveKey(openai_api_key, env_key)
           new == NewLLM(model, formatting_fn, temperature, api_key',
                         provider, listed)
       IN  /\ api_key' = SetApiKey(api_key, resolved)
           /\ llms' = Append(llms, Instance(new))
           /\ ctor' = Outcome(new, model, openai_api_key, resolved)
    /\ UNCHANGED <<env_key, provider, read, call>>

\* the caller of OpenAILLM(...) takes the instance or the error
Constructed ==
    /\ ctor # NoCtor
    /\ ctor' = NoCtor
    /\ UNCHANGED <<env_key, api_key, provider, llms, read, call>>

\* lines 68-74: llm.available_models read by the holder of the instance,
\* between its _generate calls
ReadAvailableModels(i) ==
    /\ ctor = NoCtor /\ read = NoRead
    /\ call.pc = "idle"
    /\ llms[i].status = "ok"
    /\ LET got == available_models(llms[i].available_models, provider)
       IN  /\ llms' = [llms EXCEPT ![i].available_models = got.cache,
                                   ![i].list_calls = @ + got.fetched]
           /\ read' = [llm |-> i, value |-> got.value, fetched |-> got.fetched]
    /\ UNCHANGED <<env_key, api_key, provider, ctor, call>>

\* the reader takes the list
ReadReturns ==
    /\ read # NoRead
    /\ read' = NoRead
    /\ UNCHANGED <<env_key, api_key, provider, llms, ctor, call>>

\* the provider's account gains or loses models
ProviderChange(payload) ==
    /\ ctor = NoCtor /\ read = NoRead
    /\ call.pc # "done"
    /\ payload # provider
    /\ provider' = payload
    /\ UNCHANGED <<env_key, api_key, llms, ctor, read, call>>

\* ------------------------------------------------------------ retry policy
\* (variant: only rate limiting is retried)
retry_if_rate_limited(exc) == exc = "RateLimitError"

\* (variant: every exception is retried)
retry_if_any_exception(exc) == TRUE

\* line 77: retry=retry_if_exception_type(_OPENAI_API_RETRY_ON_EXCEPTIONS)
retry_if_exception_type(exc) == exc \in _OPENAI_API_RETRY_ON_EXCEPTIONS

\* (variant: the ceiling is compared with > instead of >=)
stop_after_attempt_exceeded(attempt_number) ==
    attempt_number > _OPENAI_API_STOP_AFTER_ATTEMPT

\* line 78: stop=stop_after_attempt(_OPENAI_API_STOP_AFTER_ATTEMPT)
stop_after_attempt(attempt_number) ==
    attempt_number >= _OPENAI_API_STOP_AFTER_ATTEMPT

Pow2(k) == IF k <= 0 THEN 1 ELSE 2 ^ k
Min(a, b) == IF a <= b THEN a ELSE b

\* lines 79-82: wait_random_exponential draws the wait uniformly from
\* [0, high]; this is high for the sleep that follows a failed attempt
wait_random_exponential(attempt_number) ==
    Min(_OPENAI_API_WAIT_RANDOM_EXPONENTIAL_MULTIPLIER * Pow2(attempt_number - 1),
        _OPENAI_API_WAIT_RANDOM_EXPONENTIAL_MAX)

\* what tenacity raises once the policy stops retrying (reraise is not set,
\* so the last attempt's exception is wrapped in tenacity.RetryError)
NoExc == [cls |-> None, last_attempt |-> None]
RetryError(exc) == [cls |-> "RetryError", last_attempt |-> exc]
Raised(exc) == [cls |-> exc, last_attempt |-> None]

\* lines 76-87: what the decorated call does with an attempt that raised exc:
\* "raise" (with value) or "retry" (sleep, then call again)
AfterFailedAttempt(exc, attempt_number) ==
    IF ~retry_if_exception_type(exc)
    THEN [do |-> "raise", value |-> Raised(exc)]
    ELSE IF stop_after_attempt(attempt_number)
    THEN [do |-> "raise", value |-> RetryError(exc)]
    ELSE [do |-> "retry", value |-> NoExc]

\* ---------------------------------------------------------------- _generate
\* the instance the call in progress was made on
Self == llms[call.llm]

\* (variant: a structured Prompt is never converted)
FormatPromptWithoutFormatAs(prompt, formatting_fn) ==
    IF ~isinstance(prompt, "Prompt") /\ formatting_fn # None
    THEN [prompt |-> ApplyFormattingFn(formatting_fn, prompt), warned |-> TRUE,
          used |-> "formatting_fn", steps |-> <<"warn", "formatting_fn">>]
    ELSE [prompt |-> prompt, warned |-> FALSE, used |-> None, steps |-> <<>>]

\* (variant: the formatter is applied to a pre-formatted prompt silently)
FormatPromptWithoutWarning(prompt, formatting_fn) ==
    IF ~isinstance(prompt, "Prompt") /\ formatting_fn # None
    THEN [prompt |-> ApplyFormattingFn(formatting_fn, prompt), warned |-> FALSE,
          used |-> "formatting_fn", steps |-> <<"formatting_fn">>]
    ELSE IF isinstance(prompt, "Prompt") /\ formatting_fn = None
    THEN [prompt |-> format_as(prompt, "openai"), warned |-> FALSE,
          used |-> "format_as", steps |-> <<"format_as">>]
    ELSE [prompt |-> prompt, warned |-> FALSE, used |-> None, steps |-> <<>>]

\* (variant: with no formatter, a prompt that is no Prompt is wrapped in a
\* user turn instead of being left alone)
FormatPromptWrappingRaw(prompt, formatting_fn) ==
    IF ~isinstance(prompt, "Prompt") /\ formatting_fn # None
    THEN [prompt |-> ApplyFormattingFn(formatting_fn, prompt), warned |-> TRUE,
          used |-> "formatting_fn", steps |-> <<"warn", "formatting_fn">>]
    ELSE IF formatting_fn = None
    THEN [prompt |-> IF isinstance(prompt, "Prompt")
                     THEN format_as(prompt, "openai")
                     ELSE ApplyFormattingFn("fn_turns", prompt),
          warned |-> FALSE, used |-> "format_as", steps |-> <<"format_as">>]
    ELSE [prompt |-> prompt, warned |-> FALSE, used |-> None, steps |-> <<>>]

\* lines 96-104: formatter resolution; warned tells whether warnings.warn ran,
\* steps lists what ran, in order
FormatPrompt(prompt, formatting_fn) ==
    IF ~isinstance(prompt, "Prompt") /\ formatting_fn # None
    THEN [prompt |-> ApplyFormattingFn(formatting_fn, prompt), warned |-> TRUE,
          used |-> "formatting_fn", steps |-> <<"warn", "formatting_fn">>]
    ELSE IF isinstance(prompt, "Prompt") /\ formatting_fn = None
    THEN [prompt |-> format_as(prompt, "openai"), warned |-> FALSE,
          used |-> "format_as", steps |-> <<"format_as">>]
    ELSE [prompt |-> prompt, warned |-> FALSE, used |-> None, steps |-> <<>>]

\* (variant: the type check is dropped)
MustBeListUnchecked(prompt) == FALSE

\* line 105: the check that guards the request
MustBeList(prompt) == ~isinstance(prompt, "list")


RECURSIVE lstrip(_)
lstrip(text) ==
    IF text # <<>> /\ Head(text) = " " THEN lstrip(Tail(text)) ELSE text

RECURSIVE rstrip(_)
rstrip(text) ==
    IF text # <<>> /\ text[Len(text)] = " "
    THEN rstrip(SubSeq(text, 1, Len(text) - 1)) ELSE text

\* str.strip()
strip(text) == rstrip(lstrip(text))

\* task.parse_output(text): raises on malformed text, else the parsed output
ParseRaises(text) == \E i \in 1..Len(text) : text[i] \notin {"7", "8"}
parse_output(text) == [rating |-> text]

\* lines 116-125: the list comprehension stops at the first choice whose
\* parse raises, and the except clause replaces the whole list by []
FirstRaise(choices) ==
    LET bad == { i \in 1..Len(choices) : ParseRaises(strip(choices[i])) }
    IN  IF bad = {} THEN 0 ELSE CHOOSE i \in bad : \A j \in bad : i <= j

\* (variant: the parsed outputs come out in reverse order)
ParseChoicesReversed(choices) ==
    IF FirstRaise(choices) = 0
    THEN [parsed |-> [i \in 1..Len(choices) |->
                         parse_output(strip(choices[Len(choices) + 1 - i]))],
          warned |-> FALSE, parse_calls |-> Len(choices)]
    ELSE [parsed |-> <<>>, warned |-> TRUE, parse_calls |-> FirstRaise(choices)]

\* (variant: a choice whose parse raises is skipped, the others are kept)
ParseChoicesSkipping(choices) ==
    LET good == SelectSeq(choices, LAMBDA c : ~ParseRaises(strip(c)))
    IN  [parsed |-> [i \in 1..Len(good) |-> parse_output(strip(good[i]))],
         warned |-> FirstRaise(choices) # 0, parse_calls |-> Len(choices)]

ParseChoices(choices) ==
    IF FirstRaise(choices) = 0
    THEN [parsed |-> [i \in 1..Len(choices) |-> parse_output(strip(choices[i]))],
          warned |-> FALSE, parse_calls |-> Len(choices)]
    ELSE [parsed |-> <<>>, warned |-> TRUE, parse_calls |-> FirstRaise(choices)]

\* raw_response.to_dict_recursive()
to_dict_recursive(raw) == [type |-> "dict", choices |-> raw.choices]
OpenAIObject(choices) == [type |-> "OpenAIObject", choices |-> choices]
NoResult == [raw |-> [type |-> "NoneType", choices |-> <<>>], parsed |-> <<>>]

\* lines 109-115: the keyword arguments of the completion request
RequestKwargs(llm, messages, n) ==
    [model |-> llm.model, messages |-> messages, n |-> n,
     temperature |-> llm.temperature, max_tokens |-> llm.max_new_tokens]
NoRequest ==
    [model |-> None, messages |-> PyNone, n |-> 0,
     temperature |-> 0, max_tokens |-> 0]

\* (variant: the formatter is dropped from the instance once it has run)
SelfAfterGenerateConsumingFn(self) == [self EXCEPT !.formatting_fn = None]

\* lines 89-126: _generate assigns no attribute of self
SelfAfterGenerate(self) == self

\* line 87: openai.ChatCompletion.create is given no api_key, so the request
\* carries the module global, whichever instance makes it
KeyInForce(self, global_key) == global_key

Idle ==
    [pc |-> "idle", llm |-> 0, prompt |-> PyNone, used |-> None,
     format_warned |-> FALSE, steps |-> <<>>, request |-> NoRequest, attempt_number |-> 0,
     endpoint_calls |-> 0, failures |-> 0, sleeps |-> 0, wait_high |-> 0,
     key_used |-> None,
     last_outcome |-> None, response |-> <<>>,
     parse_calls |-> 0, parse_warned |-> FALSE,
     exception |-> NoExc, result |-> NoResult]

\* lines 95-108: self._generate(input, num_generations) up to the request
StartGenerate(i, prompt, n) ==
    /\ ctor = NoCtor /\ read = NoRead
    /\ call.pc = "idle"
    /\ llms[i].status = "ok"
    /\ LET f == FormatPrompt(prompt, llms[i].formatting_fn)
       IN  call' =
             IF MustBeList(f.prompt)
             THEN [Idle EXCEPT !.pc = "done", !.llm = i, !.prompt = prompt,
                               !.used = f.used, !.format_warned = f.warned,
                               !.steps = f.steps,
                               !.exception = Raised("ValueError")]
             ELSE [Idle EXCEPT !.pc = "request", !.llm = i, !.prompt = prompt,
                               !.used = f.used, !.format_warned = f.warned,
                               !.steps = f.steps,
                               !.request = RequestKwargs(llms[i], f.prompt, n),
                               !.attempt_number = 1]
    /\ llms' = [llms EXCEPT ![i] = SelfAfterGenerate(@)]
    /\ UNCHANGED <<env_key, api_key, provider, ctor, read>>

\* line 87 under the retry policy: one attempt that raises exc
AttemptFails(exc) ==
    /\ ctor = NoCtor /\ read = NoRead
    /\ call.pc = "request"
    /\ LET after == AfterFailedAttempt(exc, call.attempt_number)
           tried == [call EXCEPT !.endpoint_calls = @ + 1, !.failures = @ + 1,
                                 !.key_used = KeyInForce(Self, api_key),
                                 !.last_outcome = exc]
       IN  call' =
             IF after.do = "raise"
             THEN [tried EXCEPT !.pc = "done", !.exception = after.value]
             ELSE [tried EXCEPT !.attempt_number = @ + 1, !.sleeps = @ + 1,
                                !.wait_high =
                                    wait_random_exponential(call.attempt_number)]
    /\ llms' = [llms EXCEPT ![call.llm] = SelfAfterGenerate(@)]
    /\ UNCHANGED <<env_key, api_key, provider, ctor, read>>

\* line 87 and lines 116-126: one attempt that answers, then the parsing
AttemptSucceeds(choices) ==
    /\ ctor = NoCtor /\ read = NoRead
    /\ call.pc = "request"
    /\ Len(choices) = call.request.n
    /\ LET raw == OpenAIObject(choices)
           p == ParseChoices(raw.choices)
       IN  call' = [call EXCEPT !.pc = "done",
                                !.endpoint_calls = @ + 1,
                                !.key_used = KeyInForce(Self, api_key),
                                !.last_outcome = "response",
                                !.response = choices,
                                !.parse_calls = p.parse_calls,
                                !.parse_warned = p.warned,
                                !.result = [raw |-> to_dict_recursive(raw),
                                            parsed |-> p.parsed]]
    /\ llms' = [llms EXCEPT ![call.llm] = SelfAfterGenerate(@)]
    /\ UNCHANGED <<env_key, api_key, provider, ctor, read>>

\* the caller takes the result or the exception at once (no construction
\* or provider change is placed between the end of a call and its caller);
\* the next call may start
Finish ==
    /\ ctor = NoCtor /\ read = NoRead
    /\ call.pc = "done"
    /\ call' = Idle
    /\ UNCHANGED <<env_key, api_key, provider, llms, ctor, read>>

\* ----------------------------------------------------------- specification
\* openai.api_key starts as the environment's key (set at import)
Init ==
    /\ env_key \in EnvKeys
    /\ api_key = env_key
    /\ provider \in ModelListPayloads
    /\ llms = <<>>
    /\ ctor = NoCtor
    /\ read = NoRead
    /\ call = Idle

\* the endpoint's answers: n choices whose message contents, as characters,
\* alternate between two well-formed ratings, with at most one choice
\* malformed
WellFormed(n) == [i \in 1..n |-> IF i % 2 = 1 THEN <<" ", "7">> ELSE <<"8">>]
Responses ==
    UNION { {WellFormed(n)} \cup { [WellFormed(n) EXCEPT ![k] = <<"?">>] : k \in 1..n }
            : n \in 1..MaxGenerations }

Next ==
    \/ \E model \in ModelNames, key \in KeyArgs, fn \in FormattingFns,
          t \in Temperatures, listed \in BOOLEAN :
            Construct(model, key, fn, t, listed)
    \/ Constructed
    \/ \E i \in 1..Len(llms) : ReadAvailableModels(i)
    \/ ReadReturns
    \/ \E payload \in ModelListPayloads : ProviderChange(payload)
    \/ \E i \in 1..Len(llms), prompt \in GeneratedPrompts, n \in 1..MaxGenerations :
            StartGenerate(i, prompt, n)
    \/ \E exc \in EndpointErrors : AttemptFails(exc)
    \/ \E choices \in Responses : AttemptSucceeds(choices)
    \/ Finish

Spec == Init /\ [][Next]_vars

Attempt ==
    \/ \E exc \in EndpointErrors : AttemptFails(exc)
    \/ \E choices \in Responses : AttemptSucceeds(choices)

\* a call in progress runs on: the calling thread is never suspended
\* forever, and a constructor that has ended has returned
FairSpec ==
    Spec /\ WF_vars(Attempt) /\ WF_vars(Constructed) /\ WF_vars(ReadReturns)

\* -------------------------------------------------------------- properties
Transient == _OPENAI_API_RETRY_ON_EXCEPTIONS
InCall == call.pc # "idle"
Done == call.pc = "done"

\* C1 (as stated): when a construction with no openai_api_key argument and
\* OPENAI_API_KEY unset raises the missing-credential error,
\* openai.Model.list has not been called.
C1_NoCredentialFailsBeforeFetch ==
    (ctor.arg_key = None /\ env_key = None
        /\ ctor.error = "AssertionError"
        /\ ctor.message = "api key must be set")
        => ctor.list_calls = 0

\* C2 (as stated): after 6 consecutive transient errors the exception that
\* reaches the caller is the last transient error itself, unwrapped.
C2_LastTransientErrorReachesCaller ==
    (Done /\ call.failures = _OPENAI_API_STOP_AFTER_ATTEMPT
          /\ call.last_outcome \in Transient)
        => call.exception = Raised(call.last_outcome)

\* C3: one _generate invocation calls the completion endpoint at most 6
\* times, and exactly 6 times when every attempt failed with a transient
\* error; there is no 7th attempt.
C3_AtMostSixAttempts ==
    /\ call.endpoint_calls <= _OPENAI_API_STOP_AFTER_ATTEMPT
    /\ call.attempt_number <= _OPENAI_API_STOP_AFTER_ATTEMPT
    /\ (Done /\ call.failures = call.endpoint_calls
             /\ call.last_outcome \in Transient)
          => call.endpoint_calls = _OPENAI_API_STOP_AFTER_ATTEMPT

C3_Witness ==
    /\ Done
    /\ call.endpoint_calls = _OPENAI_API_STOP_AFTER_ATTEMPT
    /\ call.failures = _OPENAI_API_STOP_AFTER_ATTEMPT
    /\ call.last_outcome \in Transient

\* C4: k < 6 transient errors followed by a success give a returned result
\* built from the successful response after exactly k+1 endpoint calls; a
\* transient error ends a call only at the 6th failure; and a call that
\* has reached the request comes to its end.
C4_Absorbed ==
    /\ (Done /\ call.last_outcome = "response")
          => /\ call.exception = NoExc
             /\ call.result.raw = [type |-> "dict", choices |-> call.response]
             /\ call.failures < _OPENAI_API_STOP_AFTER_ATTEMPT
             /\ call.endpoint_calls = call.failures + 1
             /\ call.sleeps = call.failures
    /\ (Done /\ call.last_outcome \in Transient)
          => call.failures = _OPENAI_API_STOP_AFTER_ATTEMPT
    /\ (call.pc = "request" /\ call.failures > 0)
          => call.last_outcome \in Transient

C4_RetryAbsorbsFailures ==
    /\ []C4_Absorbed
    /\ (call.pc = "request") ~> Done

C4_Witness ==
    /\ Done
    /\ call.last_outcome = "response"
    /\ call.failures = _OPENAI_API_STOP_AFTER_ATTEMPT - 1
    /\ call.exception = NoExc

\* C5: an endpoint error outside the transient set reaches the caller as it
\* is, at once: no sleep follows it and no further endpoint call is made,
\* on the first attempt as on a later one.
C5_NonTransientPropagates ==
    call.last_outcome \in NonTransientErrors
        => /\ Done
           /\ call.exception = Raised(call.last_outcome)
           /\ call.endpoint_calls = call.failures
           /\ call.attempt_number = call.endpoint_calls
           /\ call.sleeps = call.endpoint_calls - 1

C5_Witness ==
    /\ Done
    /\ call.last_outcome \in NonTransientErrors
    /\ call.endpoint_calls = 3

\* C6: when the request succeeds with N >= 1 choices and parse_output
\* raises for one of them, _generate raises nothing and returns an empty
\* parsed list with the raw response in full.
AnyParseRaises(choices) ==
    \E i \in 1..Len(choices) : ParseRaises(strip(choices[i]))

C6_ParseFailureEmptiesParsed ==
    (Done /\ call.last_outcome = "response" /\ AnyParseRaises(call.response))
        => /\ call.exception = NoExc
           /\ call.result.parsed = <<>>
           /\ call.result.raw = [type |-> "dict", choices |-> call.response]
           /\ Len(call.result.raw.choices) = call.request.n
           /\ call.parse_warned

C6_Witness ==
    /\ Done
    /\ call.last_outcome = "response"
    /\ Len(call.response) = 2
    /\ ~ParseRaises(strip(call.response[1]))
    /\ ParseRaises(strip(call.response[2]))
    /\ call.result.parsed = <<>>

\* C7 (as stated): with a structured Prompt and a custom formatting_fn, the
\* custom function is applied and its result is sent to the endpoint.
C7_FormatterAppliedToPrompt ==
    (InCall /\ isinstance(call.prompt, "Prompt") /\ Self.formatting_fn # None)
        => /\ call.used = "formatting_fn"
           /\ call.request.messages =
                  ApplyFormattingFn(Self.formatting_fn, call.prompt)

\* C8: if the prompt is not a list after formatter resolution, _generate
\* raises ValueError with no completion request issued and no parse_output
\* call made.
Resolved == FormatPrompt(call.prompt, Self.formatting_fn).prompt

C8_NonListRejectedBeforeRequest ==
    (InCall /\ ~isinstance(Resolved, "list"))
        => /\ Done
           /\ call.exception = Raised("ValueError")
           /\ call.endpoint_calls = 0
           /\ call.request = NoRequest
           /\ call.parse_calls = 0

C8_Witness ==
    /\ Done
    /\ Self.formatting_fn = "fn_text"
    /\ isinstance(call.prompt, "list")
    /\ call.exception = Raised("ValueError")

\* C9: a structured Prompt with no formatting_fn is converted with
\* format_as(format="openai") and the messages of every request are the
\* result of that conversion.
C9_PromptConvertedWithFormatAs ==
    (InCall /\ isinstance(call.prompt, "Prompt") /\ Self.formatting_fn = None)
        => /\ call.used = "format_as"
           /\ call.request.messages = format_as(call.prompt, "openai")
           /\ call.request.messages # call.prompt
           /\ call.exception.cls # "ValueError"

C9_Witness ==
    /\ Done
    /\ isinstance(call.prompt, "Prompt")
    /\ Self.formatting_fn = None
    /\ call.endpoint_calls >= 1
    /\ call.request.messages.items[1].role = "system"

\* C10: a construction whose model is not in the list the provider returned
\* fails with an error whose message holds that whole list, and the adapter
\* never issues a completion request.
C10_UnavailableModelRejected ==
    /\ (ctor.listed_models.cached
            /\ ctor.arg_model \notin Range(ctor.listed_models.value))
          => /\ ctor.status = "failed"
             /\ ctor.error = "AssertionError"
             /\ ctor.message = "model is not available"
             /\ ctor.message_models = ctor.listed_models.value
             /\ llms[Len(llms)] = Discarded
    /\ InCall => Self.status = "ok"
    /\ call.request.model # None
          => call.request.model \in Range(Self.available_models.value)

C10_Witness ==
    /\ ctor.status = "failed"
    /\ ctor.arg_model = "gpt-3.5-turbo"
    /\ ctor.message_models = <<"gpt-4", "gpt-4-32k">>
    /\ Len(llms) = 2
    /\ llms[1].status = "ok"
    /\ InCall

\* C11: when generate_prompt returns something that is no Prompt and a
\* formatting_fn is set, a warning is emitted, then formatting_fn is applied,
\* and the call goes on: the formatter's result is what is checked for
\* being a list and what is sent.
Formatted == ApplyFormattingFn(Self.formatting_fn, call.prompt)

C11_WarnThenFormat ==
    (InCall /\ ~isinstance(call.prompt, "Prompt") /\ Self.formatting_fn # None)
        => /\ call.format_warned
           /\ call.steps = <<"warn", "formatting_fn">>
           /\ isinstance(Formatted, "list")
                 => /\ call.request.messages = Formatted
                    /\ call.exception.cls # "ValueError"
           /\ ~isinstance(Formatted, "list")
                 => /\ call.exception = Raised("ValueError")
                    /\ call.request = NoRequest

C11_Witness ==
    /\ Done
    /\ isinstance(call.prompt, "str")
    /\ Self.formatting_fn = "fn_turns"
    /\ call.format_warned
    /\ call.last_outcome = "response"
    /\ call.request.messages = PyList(<<Turn("user", "usr")>>)

\* C12: a prompt that is already a list of turns, with no formatting_fn,
\* passes through unchanged: the messages sent are that list, and neither
\* format_as nor a formatter runs.
C12_ListPassesThrough ==
    (InCall /\ isinstance(call.prompt, "list") /\ Self.formatting_fn = None)
        => /\ call.request.messages = call.prompt
           /\ call.steps = <<>>
           /\ call.used = None
           /\ ~call.format_warned
           /\ call.exception.cls # "ValueError"

C12_Witness ==
    /\ Done
    /\ isinstance(call.prompt, "list")
    /\ Self.formatting_fn = None
    /\ call.endpoint_calls >= 1
    /\ call.request.messages = call.prompt

\* C13: for every _generate that returns, parsed is empty or has exactly
\* one entry per choice of the raw response (so never more entries than
\* choices), and when no parse raises the entries are the choices' parsed
\* outputs in the choices' order.
C13_ParsedAllOrNothing ==
    (Done /\ call.last_outcome = "response")
        => LET choices == call.result.raw.choices
               parsed == call.result.parsed
           IN  /\ Len(parsed) <= Len(choices)
               /\ Len(parsed) \in {0, Len(choices)}
               /\ ~AnyParseRaises(call.response)
                     => /\ Len(parsed) = Len(call.response)
                        /\ \A i \in 1..Len(parsed) :
                              parsed[i] = parse_output(strip(call.response[i]))

C13_Witness ==
    /\ Done
    /\ call.last_outcome = "response"
    /\ Len(call.result.parsed) = 2
    /\ call.result.parsed[1] # call.result.parsed[2]
    /\ call.result.parsed[1] = parse_output(<<"7">>)

\* C14: the model-list endpoint is queried at most once per instance: the
\* list is computed at the first access and kept, so the second read that
\* builds the error message, and every read after the construction, gives
\* that list with no further fetch, whatever the provider lists by then.
C14_FetchedOnce ==
    /\ ctor.list_calls <= 1
    /\ ctor.message = "model is not available"
          => ctor.message_models = ctor.listed_models.value
    /\ \A i \in 1..Len(llms) :
          /\ llms[i].list_calls <= 1
          /\ llms[i].status = "ok"
                => llms[i].available_models.cached /\ llms[i].list_calls = 1
    /\ read # NoRead
          => /\ read.fetched = 0
             /\ read.value = llms[read.llm].available_models.value

C14_Frozen ==
    \A i \in 1..Len(llms) :
        llms'[i].available_models = llms[i].available_models

C14_ModelListFetchedOnce == []C14_FetchedOnce /\ [][C14_Frozen]_vars

C14_Witness ==
    /\ read # NoRead
    /\ read.value = <<"gpt-4", "gpt-4-32k">>
    /\ ListModels(provider) = <<>>
    /\ llms[read.llm].list_calls = 1

\* C15: a _generate invocation, returning or raising, leaves the instance
\* as it was (model, temperature, max_new_tokens, formatting_fn, memoized
\* model list), so what a call does is fixed by its input, the instance as
\* constructed and the endpoint's answers, whatever calls came before.
C15_FreshCall ==
    InCall
        => /\ call.steps = FormatPrompt(call.prompt, Self.formatting_fn).steps
           /\ call.request =
                 IF MustBeList(Resolved) THEN NoRequest
                 ELSE RequestKwargs(Self, Resolved, call.request.n)
           /\ call.attempt_number = call.sleeps + (IF MustBeList(Resolved) THEN 0 ELSE 1)
           /\ call.endpoint_calls <= call.attempt_number

C15_SelfUnchanged ==
    (call' # call) => (llms' = llms)

C15_GenerateLeavesStateUnchanged == []C15_FreshCall /\ [][C15_SelfUnchanged]_vars

C15_Witness ==
    /\ Done
    /\ call.last_outcome = "response"
    /\ call.steps = <<"warn", "formatting_fn">>
    /\ Self.formatting_fn = "fn_turns"
    /\ call.failures = 2

\* C16: the credential is process-wide: every construction, one that then
\* fails included, overwrites openai.api_key with the key it resolved;
\* nothing else changes it; and every request, of whichever instance,
\* carries the key in force at that moment.
C16_LastConstructionSetsKey ==
    ctor # NoCtor
        => /\ api_key = ResolveKey(ctor.arg_key, env_key)
           /\ api_key = ctor.resolved_key

C16_KeyStep ==
    /\ (api_key' # api_key) => (ctor = NoCtor /\ ctor' # NoCtor)
    /\ (call'.endpoint_calls = call.endpoint_calls + 1)
          => call'.key_used = api_key

C16_ProcessWideCredential ==
    []C16_LastConstructionSetsKey /\ [][C16_KeyStep]_vars

C16_Witness ==
    /\ call.llm = 1
    /\ call.endpoint_calls >= 1
    /\ call.key_used = None
    /\ Len(llms) = 2
    /\ llms[2] = Discarded
    /\ env_key = None

====
